---- MODULE Spec2Model ----
(***************************************************************************)
(* Model of icacls2h.py: the command-line run of the icacls-to-human       *)
(* converter.  Text is modelled as sequences of one-character strings so   *)
(* that the regular expression RE_ACE, rsplit, split, strip, endswith and  *)
(* removesuffix are computed the way Python computes them.                 *)
(*                                                                         *)
(* argv.dacl_string is consumed one line at a time by the loop of line     *)
(* 247; the model draws each line when the loop reaches it.  The loop      *)
(* variables (line, ace_list, target_account, current_dacl_string) are     *)
(* overwritten by every iteration before                                   *)
(* they are read, so the model resets them when an iteration ends (the     *)
(* two header flags excepted, which are kept until line 274 sets them);    *)
(* `out` holds what has been written to standard output since the last     *)
(* line boundary.  Debug-level log records are not modelled.               *)
(***************************************************************************)
EXTENDS Integers, Sequences, FiniteSets, TLC

(* ---------------- bounds ---------------- *)
\* number of rights items drawn for one input line
MaxTokens == 2

(* ---------------- optional values (Python None) ---------------- *)
None == <<>>
Some(x) == <<x>>
\* Python truthiness of an optional string: None and "" are false
Truthy(opt) == opt # None /\ opt[1] # <<>>

(* ---------------- string primitives ---------------- *)
\* characters matched by \w among the characters the model uses
WordChars == {"a", "x", "C", "D", "F", "G", "I", "N", "O", "R", "S", "T", "U", "W", "X", "Z"}
\* the character class [\w,] of RE_ACE
AceClass == WordChars \cup {","}
Whitespace == {" "}

Contains(s, c) == \E i \in 1..Len(s) : s[i] = c

LastIndex(s, c) == CHOOSE i \in 1..Len(s) : s[i] = c /\ \A j \in (i+1)..Len(s) : s[j] # c

\* s.rsplit(c, 1)
RSplit1(s, c) ==
  IF ~Contains(s, c) THEN <<s>>
  ELSE LET p == LastIndex(s, c) IN <<SubSeq(s, 1, p - 1), SubSeq(s, p + 1, Len(s))>>

RECURSIVE Split(_, _)
\* s.split(c)
Split(s, c) ==
  IF ~Contains(s, c) THEN <<s>>
  ELSE LET p == CHOOSE i \in 1..Len(s) : s[i] = c /\ \A j \in 1..(i-1) : s[j] # c
       IN <<SubSeq(s, 1, p - 1)>> \o Split(SubSeq(s, p + 1, Len(s)), c)

RECURSIVE LStrip(_)
LStrip(s) == IF s # <<>> /\ s[1] \in Whitespace THEN LStrip(Tail(s)) ELSE s

RECURSIVE RStrip(_)
RStrip(s) == IF s # <<>> /\ s[Len(s)] \in Whitespace THEN RStrip(SubSeq(s, 1, Len(s) - 1)) ELSE s

\* s.strip()
Strip(s) == RStrip(LStrip(s))

\* s.endswith(suf)
EndsWith(s, suf) == Len(s) >= Len(suf) /\ SubSeq(s, Len(s) - Len(suf) + 1, Len(s)) = suf

\* s.removesuffix(suf)
RemoveSuffix(s, suf) == IF EndsWith(s, suf) THEN SubSeq(s, 1, Len(s) - Len(suf)) ELSE s

NT == <<"N", "T">>

(* ---------------- RE_ACE = \(([\w,]+)\) ---------------- *)
RECURSIVE RunEnd(_, _)
\* first index >= k whose character is outside [\w,] (Len(s)+1 if none)
RunEnd(s, k) == IF k <= Len(s) /\ s[k] \in AceClass THEN RunEnd(s, k + 1) ELSE k

\* does RE_ACE match at position i
MatchAt(s, i) ==
  /\ s[i] = "("
  /\ LET j == RunEnd(s, i + 1) IN j > i + 1 /\ j <= Len(s) /\ s[j] = ")"

RECURSIVE Scan(_, _)
Scan(s, i) ==
  IF i > Len(s) THEN <<>>
  ELSE IF MatchAt(s, i)
       THEN LET j == RunEnd(s, i + 1) IN <<SubSeq(s, i + 1, j - 1)>> \o Scan(s, j + 1)
       ELSE Scan(s, i + 1)

\* RE_ACE.findall(s): the groups of the non-overlapping matches, left to right
FindAll(s) == Scan(s, 1)

(* ---------------- lookup tables ---------------- *)
DACL_BASIC_RIGHTS ==
  << [k |-> <<"F">>, d |-> "Full access"],
     [k |-> <<"M">>, d |-> "Modify access"],
     [k |-> <<"R", "X">>, d |-> "Read and execute access"],
     [k |-> <<"R">>, d |-> "Read-only access"],
     [k |-> <<"W">>, d |-> "Write-only access"] >>

DACL_ADVANCED_RIGHTS ==
  << [k |-> <<"D">>, d |-> "Delete"],
     [k |-> <<"R", "C">>, d |-> "Read control (read permissions)"],
     [k |-> <<"W", "D", "A", "C">>, d |-> "Write DAC (change permissions)"],
     [k |-> <<"W", "O">>, d |-> "Write owner (take ownership)"],
     [k |-> <<"S">>, d |-> "Synchronize"],
     [k |-> <<"A", "S">>, d |-> "Access system security"],
     [k |-> <<"M", "A">>, d |-> "Maximum allowed"],
     [k |-> <<"G", "R">>, d |-> "Generic read"],
     [k |-> <<"G", "W">>, d |-> "Generic write"],
     [k |-> <<"G", "E">>, d |-> "Generic execute"],
     [k |-> <<"G", "A">>, d |-> "Generic all"],
     [k |-> <<"R", "D">>, d |-> "Read data/list directory"],
     [k |-> <<"W", "D">>, d |-> "Write data/add file"],
     [k |-> <<"A", "D">>, d |-> "Append data/add subdirectory"],
     [k |-> <<"R", "E", "A">>, d |-> "Read extended attributes"],
     [k |-> <<"W", "E", "A">>, d |-> "Write extended attributes"],
     [k |-> <<"X">>, d |-> "Execute/traverse"],
     [k |-> <<"D", "C">>, d |-> "Delete child"],
     [k |-> <<"R", "A">>, d |-> "Read attributes"],
     [k |-> <<"W", "A">>, d |-> "Write attributes"] >>

\* d is the tuple (name, description, dir_only)
DACL_INHERITANCE_RIGHTS ==
  << [k |-> <<"I">>, d |-> <<"Inherit", "ACE inherited from the parent container.", FALSE>>],
     [k |-> <<"O", "I">>, d |-> <<"Object Inherit", "Objects in this container will inherit this ACE.", TRUE>>],
     [k |-> <<"C", "I">>, d |-> <<"Container Inherit", "Containers in this parent container will inherit this ACE.", TRUE>>],
     [k |-> <<"I", "O">>, d |-> <<"Inherit Only", "ACE inherited from the parent container, but does not apply to the object itself.", TRUE>>],
     [k |-> <<"N", "P">>, d |-> <<"Do Not Propagate Inherit", "Do not propagate inherit. ACE inherited by containers and objects from the parent container, but does not propagate to nested containers.", TRUE>>] >>

\* key in table
HasKey(table, key) == \E i \in 1..Len(table) : table[i].k = key

\* table[key]
Lookup(table, key) == table[CHOOSE i \in 1..Len(table) : table[i].k = key].d

\* table.get(key, default): Some(value) when the key is present
DictGet(table, key, default) == IF HasKey(table, key) THEN Some(Lookup(table, key)) ELSE default

\* str() of an optional description inside an f-string: None prints as "None"
Str(desc) == IF desc = None THEN "None" ELSE desc[1]

(* ---------------- output records ---------------- *)
\* one printed line: its kind, the text taken from the input, the text
\* taken from a table, and the dir-only flag of an inheritance entry
Rec(kind, code, text, flag) == [kind |-> kind, code |-> code, text |-> text, flag |-> flag]

RECURSIVE TableRows(_, _)
TableRows(table, isTuple) ==
  IF table = <<>> THEN <<>>
  ELSE <<Rec("table_row", Head(table).k, IF isTuple THEN Head(table).d[1] ELSE Head(table).d, FALSE)>>
       \o TableRows(Tail(table), isTuple)

\* pprint_dacl(name, dacl_list)
pprint_dacl(name, table, isTuple) ==
  <<Rec("table_title", <<>>, name, FALSE), Rec("table_head", <<>>, "ACE Name", FALSE),
    Rec("table_rule", <<>>, "--------", FALSE)>>
  \o TableRows(table, isTuple) \o <<Rec("blank", <<>>, "", FALSE)>>

(* ---------------- inputs ---------------- *)
ListChoices == {"basic", "advanced", "inheritance", "all"}

\* identity prefixes of an input line
Prefixes ==
  { <<>>,
    <<"S", ":">>,
    <<":">>,
    <<"a", " ", "N", "T", " ", "S", ":">>,
    <<"a", " ", "N", "T", " ", " ", "S", ":">>,
    <<" ", "a", " ", " ", "N", "T", " ", "S", ":">>,
    <<"G", " ", "U", ":">>,
    <<"N", "T", " ", "S", ":">>,
    <<"a", " ", "N", "T", " ", "C", ":", "S", ":">>,
    <<"a", " ", "N", "T", " ", "(", "X", ")", ":">>,
    <<"(", "a", "(", "F", ")", " ">> }

\* pieces of a rights expression
Items ==
  { <<"(", "F", ")">>,
    <<"(", "O", "I", ")">>,
    <<"(", "R", "D", ",", "W", "D", ")">>,
    <<"(", "Z", ")">>,
    <<"(", "O", "I", ",", "F", ")">>,
    <<"(", "F", ",", ")">> }

RECURSIVE Rights(_)
\* the concatenations of at most n items
Rights(n) == IF n = 0 THEN {<<>>} ELSE Rights(n - 1) \cup {r \o i : r \in Rights(n - 1), i \in Items}

\* the lines the loop may be given
Lines == {p \o r : p \in Prefixes, r \in Rights(MaxTokens)}

(* ---------------- state ---------------- *)
VARIABLES
  pc,                  \* position of the script
  list,                \* argv.list ("none" or one of ListChoices)
  dacl_arg,            \* argv.dacl_string on the command line: "none", "empty" or "text"
  details,             \* argv.details
  interrupted,         \* sys.stdin.read() raised KeyboardInterrupt
  exit_code,           \* None while running, Some(code) after sys.exit / end of script
  target_file,
  is_first_line,
  line,
  ace_list,
  target_account,
  current_dacl_string,
  first_perm,
  first_inherit,
  idx,                 \* position of `for ace in ace_list`
  out,                 \* lines written to stdout since the last line boundary
  targets              \* number of "Target:" lines written in the run

vars == <<pc, list, dacl_arg, details, interrupted, exit_code, target_file,
          is_first_line, line, ace_list, target_account, current_dacl_string,
          first_perm, first_inherit, idx, out, targets>>

args == <<list, dacl_arg, details>>
loopVars == <<line, ace_list, target_account, current_dacl_string, first_perm, first_inherit, idx>>

Init ==
  /\ pc = "usage"
  /\ list \in ListChoices \cup {"none"}
  /\ dacl_arg \in {"none", "empty", "text"}
  /\ details \in BOOLEAN
  /\ interrupted = FALSE
  /\ exit_code = None
  /\ target_file = None
  /\ is_first_line = TRUE
  /\ line = <<>>
  /\ ace_list = <<>>
  /\ target_account = None
  /\ current_dacl_string = <<>>
  /\ first_perm = TRUE
  /\ first_inherit = TRUE
  /\ idx = 1
  /\ out = <<>>
  /\ targets = 0

(* ---------------- the script ---------------- *)
\* lines 207-212: the usage conflict
CheckUsage ==
  /\ pc = "usage"
  /\ IF dacl_arg = "text" /\ list # "none"
     THEN /\ out' = Append(out, Rec("error", <<>>, "Cannot list DACLs and process input at the same time.", FALSE))
          /\ exit_code' = Some(1)
          /\ pc' = "done"
     ELSE /\ pc' = "banner"
          /\ UNCHANGED <<out, exit_code>>
  /\ UNCHANGED <<args, interrupted, target_file, is_first_line, loopVars, targets>>

\* lines 214-215: the banner is printed when TOOL_VERSION is set and -q is absent
PrintBanner ==
  /\ pc = "banner"
  /\ \E banner \in BOOLEAN :
       out' = IF banner THEN Append(out, Rec("banner", <<>>, "icacls2h", FALSE)) ELSE out
  /\ pc' = "list"
  /\ UNCHANGED <<args, interrupted, exit_code, target_file, is_first_line, loopVars, targets>>

\* the tables `match argv.list` prints
ListedTables(choice) ==
  CASE choice = "all" -> pprint_dacl("Basic", DACL_BASIC_RIGHTS, FALSE)
                         \o pprint_dacl("Advanced", DACL_ADVANCED_RIGHTS, FALSE)
                         \o pprint_dacl("Inheritance", DACL_INHERITANCE_RIGHTS, TRUE)
    [] choice = "advanced" -> pprint_dacl("Advanced", DACL_ADVANCED_RIGHTS, FALSE)
    [] choice = "inheritance" -> pprint_dacl("Inheritance", DACL_INHERITANCE_RIGHTS, TRUE)
    [] choice = "basic" -> pprint_dacl("Basic", DACL_BASIC_RIGHTS, FALSE)
    [] OTHER -> <<>>

\* ListTables with listing mode leaving through the error exit
ListTables_exit1 ==
  /\ pc = "list"
  /\ out' = out \o ListedTables(list)
  /\ IF list # "none"
     THEN exit_code' = Some(1) /\ pc' = "done"
     ELSE pc' = "read" /\ UNCHANGED exit_code
  /\ UNCHANGED <<args, interrupted, target_file, is_first_line, loopVars, targets>>

\* lines 217-230: listing mode
ListTables ==
  /\ pc = "list"
  /\ out' = out \o ListedTables(list)
  /\ IF list # "none"
     THEN exit_code' = Some(0) /\ pc' = "done"
     ELSE pc' = "read" /\ UNCHANGED exit_code
  /\ UNCHANGED <<args, interrupted, target_file, is_first_line, loopVars, targets>>

\* lines 232-240: standard input is read when argv.dacl_string is None or ""
ReadInput ==
  /\ pc = "read"
  /\ IF dacl_arg # "text"
     THEN \E intr \in BOOLEAN :
            /\ interrupted' = intr
            /\ IF intr
               THEN /\ out' = Append(out, Rec("info", <<>>, "Unable to read input from stdin.", FALSE))
                    /\ exit_code' = Some(1)
                    /\ pc' = "done"
               ELSE /\ pc' = "loop"
                    /\ UNCHANGED <<out, exit_code>>
     ELSE /\ pc' = "loop"
          /\ UNCHANGED <<out, exit_code, interrupted>>
  /\ UNCHANGED <<args, target_file, is_first_line, loopVars, targets>>

\* Extract with candidateFile trimmed before the test for "NT"
Extract_trimmed(l, first, tf) ==
  LET found == FindAll(l) IN
  IF Contains(l, ":")
  THEN LET parts == RSplit1(l, ":")
           target == parts[1]
           rest == parts[2]
       IN IF first /\ Contains(target, " ")
          THEN LET sp == RSplit1(target, " ") IN
               IF ~EndsWith(Strip(sp[1]), NT)
               THEN [ace_list |-> found, target_account |-> Some(target),
                     current_dacl_string |-> rest, target_file |-> None]
               ELSE [ace_list |-> found, target_account |-> Some(NT \o <<" ">> \o sp[2]),
                     current_dacl_string |-> rest,
                     target_file |-> Some(Strip(RemoveSuffix(Strip(sp[1]), NT)))]
          ELSE [ace_list |-> found, target_account |-> Some(target),
                current_dacl_string |-> rest, target_file |-> tf]
  ELSE [ace_list |-> found, target_account |-> None,
        current_dacl_string |-> l, target_file |-> tf]

\* lines 248-264: what one iteration derives from its line
Extract(l, first, tf) ==
  LET found == FindAll(l) IN
  IF Contains(l, ":")
  THEN LET parts == RSplit1(l, ":")
           target == parts[1]
           rest == parts[2]
       IN IF first /\ Contains(target, " ")
          THEN LET sp == RSplit1(target, " ") IN
               IF ~EndsWith(sp[1], NT)
               THEN [ace_list |-> found, target_account |-> Some(target),
                     current_dacl_string |-> rest, target_file |-> None]
               ELSE [ace_list |-> found, target_account |-> Some(NT \o <<" ">> \o sp[2]),
                     current_dacl_string |-> rest,
                     target_file |-> Some(Strip(RemoveSuffix(sp[1], NT)))]
          ELSE [ace_list |-> found, target_account |-> Some(target),
                current_dacl_string |-> rest, target_file |-> tf]
  ELSE [ace_list |-> found, target_account |-> None,
        current_dacl_string |-> l, target_file |-> tf]

\* lines 247-264: the loop takes its next line
ExtractIdentity ==
  /\ pc = "loop"
  /\ \E l \in Lines :
       LET e == Extract(l, is_first_line, target_file) IN
       /\ line' = l
       /\ ace_list' = e.ace_list
       /\ target_account' = e.target_account
       /\ current_dacl_string' = e.current_dacl_string
       /\ target_file' = e.target_file
  /\ out' = <<>>
  /\ pc' = "check"
  /\ UNCHANGED <<args, interrupted, exit_code, is_first_line, first_perm, first_inherit, idx, targets>>

\* HeadLines without the guard `if target_account`
HeadLines_sidUnguarded(tf, first, account, dacl) ==
  (IF Truthy(tf) /\ first THEN <<Rec("target", tf[1], "", FALSE)>> ELSE <<>>)
  \o <<Rec("sid", IF account = None THEN <<>> ELSE Strip(account[1]), "", FALSE)>>
  \o <<Rec("dacl", Strip(dacl), "", FALSE)>>

\* lines 267-273: the lines printed before the entries
HeadLines(tf, first, account, dacl) ==
  (IF Truthy(tf) /\ first THEN <<Rec("target", tf[1], "", FALSE)>> ELSE <<>>)
  \o (IF Truthy(account) THEN <<Rec("sid", Strip(account[1]), "", FALSE)>> ELSE <<>>)
  \o <<Rec("dacl", Strip(dacl), "", FALSE)>>

\* RenderHead without the assignments of lines 274-275
RenderHead_noReset ==
  /\ pc = "check"
  /\ IF Len(ace_list) > 0
     THEN /\ out' = out \o HeadLines(target_file, is_first_line, target_account, current_dacl_string)
          /\ targets' = IF Truthy(target_file) /\ is_first_line THEN targets + 1 ELSE targets
          /\ idx' = 1
          /\ pc' = "aces"
          /\ UNCHANGED <<first_perm, first_inherit>>
     ELSE /\ pc' = "endline"
          /\ UNCHANGED <<out, targets, first_perm, first_inherit, idx>>
  /\ UNCHANGED <<args, interrupted, exit_code, target_file, is_first_line, line, ace_list,
                 target_account, current_dacl_string>>

\* lines 266-275
RenderHead ==
  /\ pc = "check"
  /\ IF Len(ace_list) > 0
     THEN /\ out' = out \o HeadLines(target_file, is_first_line, target_account, current_dacl_string)
          /\ targets' = IF Truthy(target_file) /\ is_first_line THEN targets + 1 ELSE targets
          /\ first_perm' = TRUE
          /\ first_inherit' = TRUE
          /\ idx' = 1
          /\ pc' = "aces"
     ELSE /\ pc' = "endline"
          /\ UNCHANGED <<out, targets, first_perm, first_inherit, idx>>
  /\ UNCHANGED <<args, interrupted, exit_code, target_file, is_first_line, line, ace_list,
                 target_account, current_dacl_string>>

RECURSIVE PermLines_dropUnknown(_)
\* PermLines printing nothing for a piece found in neither table
PermLines_dropUnknown(pieces) ==
  IF pieces = <<>> THEN <<>>
  ELSE (IF HasKey(DACL_BASIC_RIGHTS, Head(pieces)) \/ HasKey(DACL_ADVANCED_RIGHTS, Head(pieces))
        THEN <<Rec("perm", Head(pieces),
                   Str(DictGet(DACL_BASIC_RIGHTS, Head(pieces), DictGet(DACL_ADVANCED_RIGHTS, Head(pieces), None))),
                   FALSE)>>
        ELSE <<>>)
       \o PermLines_dropUnknown(Tail(pieces))

RECURSIVE PermLines(_)
\* lines 292-295: one line per comma-separated piece
PermLines(pieces) ==
  IF pieces = <<>> THEN <<>>
  ELSE <<Rec("perm", Head(pieces),
             Str(DictGet(DACL_BASIC_RIGHTS, Head(pieces), DictGet(DACL_ADVANCED_RIGHTS, Head(pieces), None))),
             FALSE)>>
       \o PermLines(Tail(pieces))

\* AceLines with the "Permissions:" header printed ahead of the branch
AceLines_permHeaderFirst(ace, fi, fp, det) ==
  (IF fp THEN <<Rec("hdr_perm", <<>>, "Permissions:", FALSE)>> ELSE <<>>)
  \o (IF HasKey(DACL_INHERITANCE_RIGHTS, ace)
      THEN LET t == Lookup(DACL_INHERITANCE_RIGHTS, ace) IN
           (IF fi THEN <<Rec("hdr_inherit", <<>>, "Inheritance Rights:", FALSE)>> ELSE <<>>)
           \o <<Rec("inherit", ace, t[1], t[3])>>
           \o (IF det THEN <<Rec("detail", <<>>, t[2], FALSE)>> ELSE <<>>)
      ELSE PermLines(Split(ace, ",")))

\* lines 277-295: what one token prints
AceLines(ace, fi, fp, det) ==
  IF HasKey(DACL_INHERITANCE_RIGHTS, ace)
  THEN LET t == Lookup(DACL_INHERITANCE_RIGHTS, ace) IN
       (IF fi THEN <<Rec("hdr_inherit", <<>>, "Inheritance Rights:", FALSE)>> ELSE <<>>)
       \o <<Rec("inherit", ace, t[1], t[3])>>
       \o (IF det THEN <<Rec("detail", <<>>, t[2], FALSE)>> ELSE <<>>)
  ELSE (IF fp THEN <<Rec("hdr_perm", <<>>, "Permissions:", FALSE)>> ELSE <<>>)
       \o PermLines(Split(ace, ","))

\* lines 276-295: one iteration of `for ace in ace_list`
RenderAce ==
  /\ pc = "aces"
  /\ idx <= Len(ace_list)
  /\ LET ace == ace_list[idx] IN
       /\ out' = out \o AceLines(ace, first_inherit, first_perm, details)
       /\ first_inherit' = (first_inherit /\ ~HasKey(DACL_INHERITANCE_RIGHTS, ace))
       /\ first_perm' = (first_perm /\ HasKey(DACL_INHERITANCE_RIGHTS, ace))
  /\ idx' = idx + 1
  /\ UNCHANGED <<pc, args, interrupted, exit_code, target_file, is_first_line, line, ace_list,
                 target_account, current_dacl_string, targets>>

\* line 298: the blank line after the entries
PrintSeparator ==
  /\ pc = "aces"
  /\ idx > Len(ace_list)
  /\ out' = Append(out, Rec("blank", <<>>, "", FALSE))
  /\ pc' = "endline"
  /\ UNCHANGED <<args, interrupted, exit_code, target_file, is_first_line, loopVars, targets>>

\* EndLine without the assignment of line 301
EndLine_keepFirst ==
  /\ pc = "endline"
  /\ line' = <<>>
  /\ ace_list' = <<>>
  /\ target_account' = None
  /\ current_dacl_string' = <<>>
  /\ idx' = 1
  /\ out' = <<>>
  /\ pc' = "loop"
  /\ UNCHANGED <<args, interrupted, exit_code, target_file, is_first_line, first_perm, first_inherit, targets>>

\* lines 300-301: the end of an iteration
EndLine ==
  /\ pc = "endline"
  /\ is_first_line' = FALSE
  /\ line' = <<>>
  /\ ace_list' = <<>>
  /\ target_account' = None
  /\ current_dacl_string' = <<>>
  /\ idx' = 1
  /\ out' = <<>>
  /\ pc' = "loop"
  /\ UNCHANGED <<args, interrupted, exit_code, target_file, first_perm, first_inherit, targets>>

\* line 247, no line left: the script ends.  A non-empty argv.dacl_string
\* has at least one line.
Finish ==
  /\ pc = "loop"
  /\ dacl_arg = "text" => ~is_first_line
  /\ exit_code' = Some(0)
  /\ pc' = "done"
  /\ UNCHANGED <<args, interrupted, target_file, is_first_line, loopVars, out, targets>>

Next ==
  \/ CheckUsage
  \/ PrintBanner
  \/ ListTables
  \/ ReadInput
  \/ ExtractIdentity
  \/ RenderHead
  \/ RenderAce
  \/ PrintSeparator
  \/ EndLine
  \/ Finish

Spec == Init /\ [][Next]_vars

(* ---------------- vocabulary of the properties ---------------- *)
\* positions of the output lines of one kind
Idx(kind) == {i \in 1..Len(out) : out[i].kind = kind}
Count(kind) == Cardinality(Idx(kind))

IsInheritance(tok) == tok \in {<<"I">>, <<"O", "I">>, <<"C", "I">>, <<"I", "O">>, <<"N", "P">>}

\* an iteration has derived its values and has not ended yet
InLine == pc \in {"check", "aces", "endline"}
\* everything one line prints has been printed
LineDone == pc = "endline"

\* number of comma-separated pieces of a token
Pieces(tok) == 1 + Cardinality({i \in 1..Len(tok) : tok[i] = ","})

RECURSIVE SumPieces(_)
\* comma-separated pieces of the tokens that are no Inheritance key
SumPieces(toks) ==
  IF toks = <<>> THEN 0
  ELSE (IF IsInheritance(Head(toks)) THEN 0 ELSE Pieces(Head(toks))) + SumPieces(Tail(toks))

NumInheritance(toks) == Cardinality({i \in 1..Len(toks) : IsInheritance(toks[i])})

\* the text before and after the last colon of a line that has one
BeforeLastColon(l) == SubSeq(l, 1, LastIndex(l, ":") - 1)
AfterLastColon(l) == SubSeq(l, LastIndex(l, ":") + 1, Len(l))

(* ---------------- C1 ---------------- *)
\* C1: a run started with -list and a DACL_STRING argument, whatever the
\* argument's value, ends with exit code 1 and prints neither a table nor a
\* DACL report.
C1_ListWithInputExits1 ==
  (pc = "done" /\ list # "none" /\ dacl_arg # "none")
    => /\ exit_code = Some(1)
       /\ \A i \in 1..Len(out) : out[i].kind \notin {"table_title", "table_head", "table_rule", "table_row", "dacl"}

(* ---------------- C2 ---------------- *)
\* C2 as stated: a line without a colon produces no output at all.
C2_NoColonNoOutput ==
  (LineDone /\ ~Contains(line, ":")) => out = <<>>

\* C2 amended: a line without a colon prints no "SID Name" line and no
\* "Target" line, and prints nothing at all when it holds no parenthesised
\* token; when it holds one, the DACL line (the whole stripped line), the
\* entries and the separator are printed.
C2_NoColonNoIdentity ==
  (LineDone /\ ~Contains(line, ":"))
    => /\ Idx("sid") = {} /\ Idx("target") = {}
       /\ IF ace_list = <<>> THEN out = <<>>
          ELSE /\ out[1] = Rec("dacl", Strip(line), "", FALSE)
               /\ out[Len(out)].kind = "blank"
               /\ Count("inherit") + Count("perm") >= 1

C2_Witness ==
  LineDone /\ ~Contains(line, ":") /\ ace_list # <<>> /\ Count("perm") >= 1

(* ---------------- C3 ---------------- *)
\* C3 as stated: the number of entry lines of a line equals the number of
\* tokens extracted from it.
C3_EntriesEqualTokens ==
  LineDone => Count("inherit") + Count("perm") = Len(ace_list)

\* C3 amended: a token that is an Inheritance key yields exactly one
\* inheritance entry and every other token yields one permission entry per
\* comma-separated piece, so no token is dropped and the number of entries
\* is the number of tokens exactly when no permission token holds a comma.
C3_EntriesPerPiece ==
  LineDone => /\ Count("inherit") = NumInheritance(ace_list)
              /\ Count("perm") = SumPieces(ace_list)
              /\ Count("inherit") + Count("perm") >= Len(ace_list)

C3_Witness ==
  LineDone /\ Len(ace_list) = 2 /\ Count("inherit") = 1 /\ Count("perm") = 2

(* ---------------- C4 ---------------- *)
\* the description the claim gives a piece
ClaimedDescription(piece) ==
  IF HasKey(DACL_BASIC_RIGHTS, piece) THEN Lookup(DACL_BASIC_RIGHTS, piece)
  ELSE IF HasKey(DACL_ADVANCED_RIGHTS, piece) THEN Lookup(DACL_ADVANCED_RIGHTS, piece)
  ELSE "Unknown"

RECURSIVE ClaimedPieces(_)
ClaimedPieces(pieces) ==
  IF pieces = <<>> THEN <<>>
  ELSE <<Rec("perm", Head(pieces), ClaimedDescription(Head(pieces)), FALSE)>> \o ClaimedPieces(Tail(pieces))

RECURSIVE ClaimedPermLines(_)
ClaimedPermLines(toks) ==
  IF toks = <<>> THEN <<>>
  ELSE (IF IsInheritance(Head(toks)) THEN <<>> ELSE ClaimedPieces(Split(Head(toks), ",")))
       \o ClaimedPermLines(Tail(toks))

IsPermLine(r) == r.kind = "perm"

\* C4: the permission lines of a line are, in order, the comma-separated
\* pieces of its tokens that are no Inheritance key, each with the Basic
\* description, else the Advanced description, else "Unknown".
C4_PieceDescriptions ==
  LineDone => SelectSeq(out, IsPermLine) = ClaimedPermLines(ace_list)

(* ---------------- C5 ---------------- *)
\* what the claim derives from the text before the last colon; trim says
\* whether candidateFile is trimmed before the "NT" test
ClaimedIdentity(target, first, trim) ==
  IF first /\ Contains(target, " ")
  THEN LET p == LastIndex(target, " ")
           candidateFile == SubSeq(target, 1, p - 1)
           candidateAccount == SubSeq(target, p + 1, Len(target))
           tested == IF trim THEN Strip(candidateFile) ELSE candidateFile
       IN IF EndsWith(tested, NT)
          THEN [account |-> Some(<<"N", "T", " ">> \o candidateAccount),
                file |-> Some(Strip(SubSeq(tested, 1, Len(tested) - 2)))]
          ELSE [account |-> Some(target), file |-> None]
  ELSE [account |-> Some(target), file |-> None]

\* C5 as stated: candidateFile is trimmed before it is tested for "NT".
C5_IdentityTrimmed ==
  (pc = "check" /\ Contains(line, ":"))
    => LET c == ClaimedIdentity(BeforeLastColon(line), is_first_line, TRUE) IN
       /\ target_account = c.account
       /\ is_first_line => target_file = c.file

\* C5 amended: on the first line, when the text before the last colon holds
\* a space, it is split on its last space, and candidateFile as it stands,
\* without trimming, is tested for the suffix "NT"; the rest is as stated.
\* On a later line no file is extracted: target_file keeps its value.
C5_IdentityUntrimmed ==
  /\ [](  (pc = "check" /\ Contains(line, ":"))
            => LET c == ClaimedIdentity(BeforeLastColon(line), is_first_line, FALSE) IN
               /\ target_account = c.account
               /\ is_first_line => target_file = c.file )
  /\ [][ ~is_first_line => target_file' = target_file ]_vars

C5_Witness ==
  /\ pc = "check" /\ is_first_line
  /\ line = <<"a", " ", "N", "T", " ", " ", "S", ":", "(", "F", ")">>
  /\ target_file = None

(* ---------------- C6 ---------------- *)
\* C6: a "Target:" line is written at most once in a run and only while
\* the first line is processed; is_first_line never becomes true again; the
\* file value is still held on later lines.
C6_TargetOnlyOnFirstLine ==
  /\ [](targets <= 1)
  /\ [](Idx("target") # {} => is_first_line)
  /\ [](targets = 1 => Truthy(target_file))
  /\ [][ ~is_first_line => ~is_first_line' ]_vars
  /\ [][ (pc = "endline") => ~is_first_line' ]_vars
  /\ [][ targets' # targets => (is_first_line /\ pc = "check") ]_vars

C6_Witness ==
  LineDone /\ ~is_first_line /\ Truthy(target_file) /\ targets = 1 /\ Idx("dacl") # {}

InheritanceSection == Idx("hdr_inherit") \cup Idx("inherit")
PermissionSection == Idx("hdr_perm") \cup Idx("perm")

\* C8 as stated: whatever the order of the tokens, the whole Inheritance
\* Rights section precedes the whole Permissions section.
C8_InheritanceFirst ==
  LineDone => \A i \in InheritanceSection : \A p \in PermissionSection : i < p

\* no permission token precedes an inheritance token
InheritanceTokensFirst(toks) ==
  \A i \in 1..Len(toks) : \A j \in 1..Len(toks) :
    (~IsInheritance(toks[i]) /\ IsInheritance(toks[j])) => j < i

\* C8 amended: when the inheritance tokens of a line all precede its
\* permission tokens, the Inheritance Rights section precedes the
\* Permissions section; in general the header that comes first is the one
\* of the line's first token.
C8_InheritanceFirstWhenTokensAre ==
  LineDone =>
    /\ InheritanceTokensFirst(ace_list)
         => \A i \in InheritanceSection : \A p \in PermissionSection : i < p
    /\ (Idx("hdr_inherit") # {} /\ Idx("hdr_perm") # {})
         => \A i \in Idx("hdr_inherit") : \A p \in Idx("hdr_perm") :
              (i < p) <=> IsInheritance(ace_list[1])

C8_Witness ==
  LineDone /\ InheritanceTokensFirst(ace_list) /\ Count("inherit") >= 1 /\ Count("perm") >= 1

(* ---------------- C9 ---------------- *)
\* C9: on a line with a colon the tokens classified and rendered are the
\* parenthesised groups of the text after the last colon, in order.
C9_TokensFromRightsString ==
  (InLine /\ Contains(line, ":")) => ace_list = FindAll(AfterLastColon(line))

(* ---------------- C10 ---------------- *)
\* the header of kind hdr comes immediately before the first entry of kind ent
HeaderBeforeFirst(hdr, ent) ==
  \A h \in Idx(hdr) : h + 1 \in Idx(ent) /\ \A e \in Idx(ent) : e > h

\* C10: on every rendered line each header is printed at most once, exactly
\* when the line has a token of its kind, and immediately before the first
\* entry of that kind; the header flags start afresh on each line.
C10_Headers ==
  /\ LineDone =>
       /\ Count("hdr_inherit") <= 1 /\ Count("hdr_perm") <= 1
       /\ (Count("hdr_inherit") = 1) <=> (\E i \in 1..Len(ace_list) : IsInheritance(ace_list[i]))
       /\ (Count("hdr_perm") = 1) <=> (\E i \in 1..Len(ace_list) : ~IsInheritance(ace_list[i]))
       /\ HeaderBeforeFirst("hdr_inherit", "inherit")
       /\ HeaderBeforeFirst("hdr_perm", "perm")
  /\ (pc = "aces" /\ idx = 1) => (first_perm /\ first_inherit)

C10_Witness ==
  LineDone /\ ~is_first_line /\ Count("hdr_inherit") = 1 /\ Count("hdr_perm") = 1

====
